---- MODULE Spec2Model ----
(***************************************************************************)
(* The OCR benchmark harness of ocr-adda: main.process (the orchestrator   *)
(* loop over engines and pages) and utils.compute_all_metrics (the metrics *)
(* engine), as a state machine.                                            *)
(*                                                                         *)
(* Text is a sequence of one-character strings.  A float is the pair       *)
(* <<numerator, denominator>> of the division that produced it.            *)
(***************************************************************************)
EXTENDS Integers, Sequences, FiniteSets, TLC

\* ------------------------------------------------------------------ bounds
\* longest models_to_run list handed to process
MaxModels == 2
\* most pages the rasterizer returns
MaxPages == 2
\* longest text handed to compute_all_metrics
MaxStrLen == 3
\* most run_image calls of one run: a document of n pages is run with a
\* list of k models only when k * n does not exceed it
MaxCalls == 4

\* ------------------------------------------------------------ Python values
\* A metric value is a sequence: None is the empty one, the integer n is
\* <<n>>, and the float n / d is <<n, d>>.
None == <<>>
IntVal(n) == <<n>>
Frac(n, d) == <<n, d>>
\* 1.0 - x of a float x
OneMinus(x) == Frac(x[2] - x[1], x[2])
\* the empty dict {} and dict.get(key), whose default is None
EmptyDict == <<>>
DictGet(d, key) == IF key \in DOMAIN d THEN d[key] ELSE None

Min2(a, b) == IF a <= b THEN a ELSE b
Min3(a, b, c) == Min2(a, Min2(b, c))
Max2(a, b) == IF a >= b THEN a ELSE b

\* ------------------------------------------------------------------- text
Whitespace == {" "}
Alphabet == {"a", "b", " "}

EmptyStr == <<>>
BlankStr == <<" ">>
Str_ab == <<"a", " ", "b">>

\* every text of at most n characters
StringsUpTo(n) == UNION {[1..k -> Alphabet] : k \in 0..n}

\* bool(s.strip()) is False: s is empty or holds only whitespace
IsBlank(s) == \A i \in 1..Len(s) : s[i] \in Whitespace

\* str.split(): the maximal runs of non-whitespace characters, in order
RECURSIVE SplitFrom(_, _, _, _)
SplitFrom(s, i, cur, acc) ==
    IF i > Len(s)
    THEN IF cur = <<>> THEN acc ELSE Append(acc, cur)
    ELSE IF s[i] \in Whitespace
         THEN SplitFrom(s, i + 1, <<>>, IF cur = <<>> THEN acc ELSE Append(acc, cur))
         ELSE SplitFrom(s, i + 1, Append(cur, s[i]), acc)

Split(s) == SplitFrom(s, 1, <<>>, <<>>)

\* ------------------------------------------------------- Levenshtein.distance
\* One row of the edit-distance table: prev is the row of the reference
\* prefix one shorter, c the reference item this row adds, cur the cells of
\* this row computed so far (cell j is kept at index j + 1).
RECURSIVE LevFill(_, _, _, _)
LevFill(prev, c, hyp, cur) ==
    IF Len(cur) = Len(hyp) + 1
    THEN cur
    ELSE LET j == Len(cur)
             cost == IF hyp[j] = c THEN 0 ELSE 1
             v == Min3(prev[j + 1] + 1, cur[j] + 1, prev[j] + cost)
         IN  LevFill(prev, c, hyp, Append(cur, v))

RECURSIVE LevRows(_, _, _, _)
LevRows(ref, hyp, i, prev) ==
    IF i > Len(ref)
    THEN prev
    ELSE LevRows(ref, hyp, i + 1, LevFill(prev, ref[i], hyp, <<prev[1] + 1>>))

\* Levenshtein.distance(ref, hyp): insert, delete, substitute cost 1 each
LevenshteinDistance(ref, hyp) ==
    LevRows(ref, hyp, 1, [j \in 1..(Len(hyp) + 1) |-> j - 1])[Len(hyp) + 1]

\* ------------------------------------------------------ jiwer.compute_measures
\* every row of the edit-distance table (row i is kept at index i + 1)
RECURSIVE LevTableFrom(_, _, _, _)
LevTableFrom(ref, hyp, i, rows) ==
    IF i > Len(ref)
    THEN rows
    ELSE LET prev == rows[Len(rows)]
         IN  LevTableFrom(ref, hyp, i + 1,
                          Append(rows, LevFill(prev, ref[i], hyp, <<prev[1] + 1>>)))

LevTable(ref, hyp) ==
    LevTableFrom(ref, hyp, 1, << [j \in 1..(Len(hyp) + 1) |-> j - 1] >>)

\* The edit operations of one minimum-cost script, counted while walking the
\* table back from its last cell: an equal pair is kept, otherwise a
\* replace, a delete (reference item dropped) or an insert (hypothesis item
\* added) is taken, whichever stays on a minimum-cost path, in that order.
RECURSIVE EditOpsFrom(_, _, _, _, _, _)
EditOpsFrom(tab, ref, hyp, i, j, ops) ==
    IF i = 0 /\ j = 0 THEN ops
    ELSE IF i > 0 /\ j > 0 /\ ref[i] = hyp[j] /\ tab[i][j] = tab[i + 1][j + 1]
    THEN EditOpsFrom(tab, ref, hyp, i - 1, j - 1, ops)
    ELSE IF i > 0 /\ j > 0 /\ tab[i][j] + 1 = tab[i + 1][j + 1]
    THEN EditOpsFrom(tab, ref, hyp, i - 1, j - 1,
                     [ops EXCEPT !.substitutions = @ + 1])
    ELSE IF i > 0 /\ tab[i][j + 1] + 1 = tab[i + 1][j + 1]
    THEN EditOpsFrom(tab, ref, hyp, i - 1, j,
                     [ops EXCEPT !.deletions = @ + 1])
    ELSE EditOpsFrom(tab, ref, hyp, i, j - 1,
                     [ops EXCEPT !.insertions = @ + 1])

\* the script is read the other way round: a dropped reference item counts
\* as an insert and an added hypothesis item as a delete
EditOpsSwapped(ref, hyp) ==
    LET ops == EditOpsFrom(LevTable(ref, hyp), ref, hyp, Len(ref), Len(hyp),
                           [substitutions |-> 0, deletions |-> 0, insertions |-> 0])
    IN  [substitutions |-> ops.substitutions,
         deletions |-> ops.insertions,
         insertions |-> ops.deletions]

EditOps(ref, hyp) ==
    EditOpsFrom(LevTable(ref, hyp), ref, hyp, Len(ref), Len(hyp),
                [substitutions |-> 0, deletions |-> 0, insertions |-> 0])

\* the error count is divided by the words of the hypothesis, not of the truth
compute_measures_by_hypothesis(truth, hypothesis) ==
    LET ref == Split(truth)
        hyp == Split(hypothesis)
        ops == EditOps(ref, hyp)
        S == ops.substitutions
        D == ops.deletions
        I == ops.insertions
        H == Len(ref) - (S + D)
    IN  IF ref = <<>>
        THEN [raised |-> TRUE, wer |-> None, hits |-> None,
              substitutions |-> None, deletions |-> None, insertions |-> None]
        ELSE [raised |-> FALSE, wer |-> Frac(S + D + I, Max2(1, Len(hyp))), hits |-> IntVal(H),
              substitutions |-> IntVal(S), deletions |-> IntVal(D), insertions |-> IntVal(I)]

\* jiwer.compute_measures(truth, hypothesis): both texts are split into
\* words; a truth without words raises ValueError; otherwise the word-level
\* edit operations are counted, hits = words of the truth - (S + D), and
\* wer = (S + D + I) / (H + S + D).
compute_measures(truth, hypothesis) ==
    LET ref == Split(truth)
        hyp == Split(hypothesis)
        ops == EditOps(ref, hyp)
        S == ops.substitutions
        D == ops.deletions
        I == ops.insertions
        H == Len(ref) - (S + D)
    IN  IF ref = <<>>
        THEN [raised |-> TRUE, wer |-> None, hits |-> None,
              substitutions |-> None, deletions |-> None, insertions |-> None]
        ELSE [raised |-> FALSE, wer |-> Frac(S + D + I, H + S + D), hits |-> IntVal(H),
              substitutions |-> IntVal(S), deletions |-> IntVal(D), insertions |-> IntVal(I)]

\* a value computed by a third-party scorer (rapidfuzz ratio, BLEU, ROUGE-L):
\* some finite float, never None
Float == <<"float">>

\* ------------------------------------------------- utils.compute_all_metrics
MetricFields ==
    {"cer", "wer", "char_acc", "word_acc", "levenshtein_dist", "fuzz_ratio",
     "bleu", "rougeL_f1", "substitutions", "deletions", "insertions"}

\* the dictionary of the empty ground truth case
AllNoneMetrics == [f \in MetricFields |-> None]

\* the guard without its second half: only the empty text is caught
DegenerateGuardNoStrip(gt) == gt = EmptyStr

\* the guard of the empty ground truth case: not gt or not gt.strip()
DegenerateGuard(gt) == gt = EmptyStr \/ IsBlank(gt)

\* compute_all_metrics(gt, hyp): [raised, value]; value is the returned
\* dictionary, and raised says that compute_measures raised instead
compute_all_metrics(gt, hyp) ==
    IF DegenerateGuard(gt)
    THEN [raised |-> FALSE, value |-> AllNoneMetrics]
    ELSE LET lev_dist == LevenshteinDistance(gt, hyp)
             cer == IF Len(gt) > 0 THEN Frac(lev_dist, Len(gt)) ELSE Frac(1, 1)
             word_measures == compute_measures(gt, hyp)
             wer_val == word_measures.wer
         IN  IF word_measures.raised
             THEN [raised |-> TRUE, value |-> EmptyDict]
             ELSE [raised |-> FALSE,
                   value |->
                     [f \in MetricFields |->
                        CASE f = "cer" -> cer
                          [] f = "wer" -> wer_val
                          [] f = "char_acc" -> OneMinus(cer)
                          [] f = "word_acc" -> OneMinus(wer_val)
                          [] f = "levenshtein_dist" -> IntVal(lev_dist)
                          [] f = "fuzz_ratio" -> Float
                          [] f = "bleu" -> Float
                          [] f = "rougeL_f1" -> Float
                          [] f = "substitutions" -> word_measures.substitutions
                          [] f = "deletions" -> word_measures.deletions
                          [] f = "insertions" -> word_measures.insertions]]

\* ------------------------------------- utils.compute_cer, compute_word_measures
\* main.py imports both from utils; the utils.py at hand defines neither.
\* They follow the metrics engine of the specification: a blank reference
\* yields the sentinel, otherwise the documented formulas.
compute_cer(gt, hyp) ==
    IF gt = EmptyStr \/ IsBlank(gt)
    THEN <<None, None>>
    ELSE LET dist == LevenshteinDistance(gt, hyp)
         IN  <<Frac(dist, Len(gt)), IntVal(dist)>>

compute_word_measures(gt, hyp) ==
    IF gt = EmptyStr \/ IsBlank(gt)
    THEN <<None, EmptyDict>>
    ELSE LET ref == Split(gt)
             ops == EditOps(ref, Split(hyp))
             errors == ops.substitutions + ops.deletions + ops.insertions
         IN  <<Frac(errors, Max2(1, Len(ref))),
               [substitutions |-> IntVal(ops.substitutions),
                deletions |-> IntVal(ops.deletions),
                insertions |-> IntVal(ops.insertions)]>>

\* ------------------------------------------------------------ main.RUNNER_MAP
RUNNER_MAP ==
    [tesseract |-> "TesseractRunner",
     easyocr |-> "EasyOCRRunner",
     paddle_ppstructure |-> "PaddleStructureRunner",
     gemini_1_5_flash |-> "GeminiRunner",
     florence2_base |-> "FlorenceRunner"]

\* the class attribute `name` of the runner classes under runners/
RunnerName ==
    [EasyOCRRunner |-> "easyocr",
     PaddleStructureRunner |-> "paddle_ppstructure",
     GeminiRunner |-> "models/gemini-2.5-flash",
     FlorenceRunner |-> "florence2_base"]

\* the model names a configuration is drawn from: two keys of RUNNER_MAP and
\* one name RUNNER_MAP does not hold
ModelNames == {"easyocr", "gemini_1_5_flash", "not_in_map"}

SeqsUpTo(S, n) == UNION {[1..k -> S] : k \in 0..n}

\* ------------------------------------------------------- the environment
\* what a text-valued local holds: a str, None, or nothing (unbound)
StrVal(t) == [kind |-> "str", val |-> t]
NoneText == [kind |-> "none", val |-> EmptyStr]
UnboundText == [kind |-> "unbound", val |-> EmptyStr]

ReturnTexts == {EmptyStr, Str_ab}
ErrorMessages == {<<"x">>}

\* what one call of runner.run_image does: return a str, return None, or
\* raise an exception with a message
RunImageOutcomes ==
    {[kind |-> "text", val |-> t] : t \in ReturnTexts}
        \cup {[kind |-> "none", val |-> EmptyStr]}
        \cup {[kind |-> "raise", val |-> m] : m \in ErrorMessages}

\* where a path handed to resolve_input_path exists
PathStates == {"given", "fallback", "missing"}

\* the reference texts of a ground-truth source, per page
RefTexts == {BlankStr, Str_ab}

\* f"[OCR_ERROR: {e}]"
OcrErrorMarker(msg) ==
    <<"[", "O", "C", "R", "_", "E", "R", "R", "O", "R", ":", " ">> \o msg \o <<"]">>

\* every mapping read_gemini_ground_truth can return for pages 1..n: any set
\* of pages present, each with a reference text
GroundTruths(n) == UNION {[D -> RefTexts] : D \in SUBSET (1..n)}

\* -------------------------------------------------------------------- state
VARIABLES
    pc,               \* where process stands
    models_to_run,    \* parameter of process: the enabled model names
    pdf_path,         \* which candidate resolve_input_path returned
    gemini_gt_path,
    gemini_gt,        \* page number -> reference text
    total_pages,      \* len(page_images)
    name_it,          \* names of models_to_run the initialization loop has taken
    runners,          \* the constructed runner instances, in order
    init_log,         \* the [SUCCESS] / [FAILURE] / [SKIPPED] log lines
    runner_it,        \* runners the engine loop has taken
    runner,           \* loop variable: index in runners of the instance, 0 unbound
    page_idx,         \* loop variable of the page loop
    page_text,
    gt,
    hyp,
    cer,
    w,
    measures,
    char_acc,
    summary_rows,
    out_files,        \* the page_<n>.txt files written, as <<runner name, page>>
    summary_written,  \* summary.csv and summary.json exist
    run_image_calls,  \* calls of run_image made so far
    m_pc,             \* where a call of compute_all_metrics stands
    m_gt,             \* its arguments
    m_hyp,
    m_result,         \* what it returned
    run_no,           \* 1, or 2 in the second of two compared runs
    answers,          \* what the environment answered in this run, in order
    prior,            \* the first run's answers, rows and runners
    varied            \* <<runner, page>> whose run_image may differ in run 2

procVars ==
    <<pc, models_to_run, pdf_path, gemini_gt_path, gemini_gt, total_pages,
      name_it, runners, init_log, runner_it, runner, page_idx, page_text, gt,
      hyp, cer, w, measures, char_acc, summary_rows, out_files,
      summary_written, run_image_calls>>
metricVars == <<m_pc, m_gt, m_hyp, m_result>>
pairVars == <<run_no, prior, varied>>
vars == <<procVars, metricVars, pairVars, answers>>

\* process has returned, exited or died
Terminal == {"done", "halted", "exited", "crashed", "not_called"}

\* the locals of process before its first statement
ProcessEntry ==
    /\ pdf_path = "cmd_path"
    /\ gemini_gt_path = "cmd_path"
    /\ gemini_gt = <<>>
    /\ total_pages = 0
    /\ name_it = 0
    /\ runners = <<>>
    /\ init_log = <<>>
    /\ runner_it = 0
    /\ runner = 0
    /\ page_idx = 0
    /\ page_text = UnboundText
    /\ gt = EmptyStr
    /\ hyp = EmptyStr
    /\ cer = None
    /\ w = None
    /\ measures = EmptyDict
    /\ char_acc = None
    /\ summary_rows = <<>>
    /\ out_files = {}
    /\ summary_written = FALSE
    /\ run_image_calls = 0
    /\ answers = <<>>

NoPair ==
    /\ run_no = 1
    /\ prior = [answers |-> <<>>, rows |-> <<>>, runners |-> <<>>, pc |-> "none"]
    /\ varied = <<0, 0>>

\* process(models_to_run = some list of names) has been called
InitProcess ==
    /\ pc = "resolve"
    /\ models_to_run \in SeqsUpTo(ModelNames, MaxModels)
    /\ ProcessEntry
    /\ m_pc = "not_called" /\ m_gt = EmptyStr /\ m_hyp = EmptyStr
    /\ m_result = [raised |-> FALSE, value |-> EmptyDict]
    /\ NoPair

\* compute_all_metrics(gt, hyp) has been called on two texts
InitMetrics ==
    /\ pc = "not_called"
    /\ models_to_run = <<>>
    /\ ProcessEntry
    /\ m_pc = "called"
    /\ m_gt \in StringsUpTo(MaxStrLen)
    /\ m_hyp \in StringsUpTo(MaxStrLen)
    /\ m_result = [raised |-> FALSE, value |-> EmptyDict]
    /\ NoPair

Init == InitProcess \/ InitMetrics

\* The environment's answer to the next question.  In a first run any
\* answer of `all`; in the second of two compared runs the answer the first
\* run got at the same point, except that the varied run_image call may
\* raise where it returned and return where it raised.
Ask(all, is_varied) ==
    LET k == Len(answers) + 1
    IN  IF run_no = 1 \/ k > Len(prior.answers)
        THEN all
        ELSE IF is_varied
             THEN {a \in all : \/ a = prior.answers[k]
                               \/ a.kind = "raise"
                               \/ prior.answers[k].kind = "raise"}
             ELSE {prior.answers[k]}

\* -------------------------------------------------------------- main.process
\* the most pages the document of this run has: MaxPages, and no more than
\* MaxCalls run_image calls over the enabled models
PageBound == Min2(MaxPages, MaxCalls \div Max2(1, Len(models_to_run)))

\* no raise at the end: a path found nowhere is returned as given
resolve_input_path_unchecked(where) ==
    IF where = "fallback" THEN "fallback_path" ELSE "cmd_path"

\* resolve_input_path: the given path if it exists, else the fallback under
\* the default directory if that exists, else FileNotFoundError
resolve_input_path(where) ==
    IF where = "given" THEN "cmd_path"
    ELSE IF where = "fallback" THEN "fallback_path"
    ELSE "FileNotFoundError"

\* lines 73-78: both inputs are resolved; FileNotFoundError ends in sys.exit(1)
ResolveInputs ==
    /\ pc = "resolve"
    /\ \E a \in Ask({[kind |-> "resolve", val |-> <<x, y>>] :
                        x \in PathStates, y \in PathStates}, FALSE) :
         LET p == resolve_input_path(a.val[1])
             g == resolve_input_path(a.val[2])
         IN  /\ answers' = Append(answers, a)
             /\ IF p = "FileNotFoundError"
                THEN /\ pc' = "exited"
                     /\ UNCHANGED <<pdf_path, gemini_gt_path>>
                ELSE IF g = "FileNotFoundError"
                THEN /\ pc' = "exited"
                     /\ pdf_path' = p
                     /\ UNCHANGED gemini_gt_path
                ELSE /\ pc' = "load_gt"
                     /\ pdf_path' = p
                     /\ gemini_gt_path' = g
    /\ UNCHANGED <<models_to_run, gemini_gt, total_pages, name_it, runners,
                   init_log, runner_it, runner, page_idx, page_text, gt, hyp,
                   cer, w, measures, char_acc, summary_rows, out_files,
                   summary_written, run_image_calls>>
    /\ UNCHANGED <<metricVars, pairVars>>

\* lines 80-81: gemini_gt = read_gemini_ground_truth(gemini_gt_path)
LoadGroundTruth ==
    /\ pc = "load_gt"
    /\ \E a \in Ask({[kind |-> "gt", val |-> m] : m \in GroundTruths(PageBound)}, FALSE) :
         /\ answers' = Append(answers, a)
         /\ gemini_gt' = a.val
    /\ pc' = "convert"
    /\ UNCHANGED <<models_to_run, pdf_path, gemini_gt_path, total_pages,
                   name_it, runners, init_log, runner_it, runner, page_idx,
                   page_text, gt, hyp, cer, w, measures, char_acc,
                   summary_rows, out_files, summary_written, run_image_calls>>
    /\ UNCHANGED <<metricVars, pairVars>>

\* lines 83-93: the document is rasterized, total_pages = len(page_images),
\* runners = []
ConvertPdf ==
    /\ pc = "convert"
    /\ \E a \in Ask({[kind |-> "pages", val |-> n] :
                        n \in 0..PageBound}, FALSE) :
         /\ answers' = Append(answers, a)
         /\ total_pages' = a.val
    /\ runners' = <<>>
    /\ name_it' = 0
    /\ pc' = "init_runners"
    /\ UNCHANGED <<models_to_run, pdf_path, gemini_gt_path, gemini_gt,
                   init_log, runner_it, runner, page_idx, page_text, gt, hyp,
                   cer, w, measures, char_acc, summary_rows, out_files,
                   summary_written, run_image_calls>>
    /\ UNCHANGED <<metricVars, pairVars>>

\* the except clause re-raises instead of logging: the run dies
InitOutcomeAborting(name, ok) ==
    IF ok
    THEN [runners |-> Append(runners, [key |-> name,
                                       name |-> RunnerName[RUNNER_MAP[name]]]),
          log |-> "SUCCESS"]
    ELSE [runners |-> <<>>, log |-> "ABORT"]

\* what the try block of lines 96-106 leaves in runners and in the log when
\* the import, the attribute lookup and the constructor succeed (ok) or one
\* of them raises
InitOutcome(name, ok) ==
    IF ok
    THEN [runners |-> Append(runners, [key |-> name,
                                       name |-> RunnerName[RUNNER_MAP[name]]]),
          log |-> "SUCCESS"]
    ELSE [runners |-> runners, log |-> "FAILURE"]

\* lines 94-110: one iteration of `for name in models_to_run`
InitRunner ==
    /\ pc = "init_runners"
    /\ name_it < Len(models_to_run)
    /\ name_it' = name_it + 1
    /\ LET name == models_to_run[name_it + 1]
       IN  IF name \in DOMAIN RUNNER_MAP
           THEN \E a \in Ask({[kind |-> "ctor", val |-> b] : b \in BOOLEAN}, FALSE) :
                  LET out == InitOutcome(name, a.val)
                  IN  /\ answers' = Append(answers, a)
                      /\ runners' = out.runners
                      /\ init_log' = Append(init_log, [name |-> name, outcome |-> out.log])
                      /\ pc' = IF out.log = "ABORT" THEN "crashed" ELSE "init_runners"
           ELSE /\ init_log' = Append(init_log, [name |-> name, outcome |-> "SKIPPED"])
                /\ pc' = "init_runners"
                /\ UNCHANGED <<runners, answers>>
    /\ UNCHANGED <<models_to_run, pdf_path, gemini_gt_path, gemini_gt,
                   total_pages, runner_it, runner, page_idx, page_text, gt,
                   hyp, cer, w, measures, char_acc, summary_rows, out_files,
                   summary_written, run_image_calls>>
    /\ UNCHANGED <<metricVars, pairVars>>

\* the check is missing: the engine loop is entered with no runner
NoRunnersNever(rs) == FALSE

\* lines 112-114: `if not runners`
NoRunners(rs) == rs = <<>>

\* lines 112-117: the loop over the names is over; with no runner process
\* returns, else summary_rows = []
CheckRunners ==
    /\ pc = "init_runners"
    /\ name_it = Len(models_to_run)
    /\ IF NoRunners(runners)
       THEN pc' = "halted" /\ UNCHANGED summary_rows
       ELSE pc' = "engine_loop" /\ summary_rows' = <<>>
    /\ runner_it' = 0
    /\ UNCHANGED <<models_to_run, pdf_path, gemini_gt_path, gemini_gt,
                   total_pages, name_it, runners, init_log, runner, page_idx,
                   page_text, gt, hyp, cer, w, measures, char_acc, out_files,
                   summary_written, run_image_calls>>
    /\ UNCHANGED <<metricVars, pairVars, answers>>

\* lines 118-121: `for runner in runners` takes the next runner and makes
\* its output directory
NextRunner ==
    /\ pc = "engine_loop"
    /\ runner_it < Len(runners)
    /\ runner_it' = runner_it + 1
    /\ runner' = runner_it + 1
    /\ page_idx' = 0
    /\ pc' = "page_loop"
    /\ UNCHANGED <<models_to_run, pdf_path, gemini_gt_path, gemini_gt,
                   total_pages, name_it, runners, init_log, page_text, gt,
                   hyp, cer, w, measures, char_acc, summary_rows, out_files,
                   summary_written, run_image_calls>>
    /\ UNCHANGED <<metricVars, pairVars, answers>>

\* the except clause ends in `continue`: a failed page gets no row
AfterRunImageSkipping(o) ==
    IF o.kind = "raise"
    THEN [page_text |-> UnboundText, pc |-> "page_loop"]
    ELSE IF o.kind = "none"
    THEN [page_text |-> NoneText, pc |-> "save_text"]
    ELSE [page_text |-> StrVal(o.val), pc |-> "save_text"]

\* no except clause: the exception of run_image leaves process
AfterRunImageUncaught(o) ==
    IF o.kind = "raise"
    THEN [page_text |-> UnboundText, pc |-> "crashed"]
    ELSE IF o.kind = "none"
    THEN [page_text |-> NoneText, pc |-> "save_text"]
    ELSE [page_text |-> StrVal(o.val), pc |-> "save_text"]

\* lines 124-128: what page_text holds after the try statement around
\* runner.run_image, and where process goes on
AfterRunImage(o) ==
    IF o.kind = "raise"
    THEN [page_text |-> StrVal(OcrErrorMarker(o.val)), pc |-> "save_text"]
    ELSE IF o.kind = "none"
    THEN [page_text |-> NoneText, pc |-> "save_text"]
    ELSE [page_text |-> StrVal(o.val), pc |-> "save_text"]

\* lines 122-128: the page loop takes the next page and calls run_image
Recognize ==
    /\ pc = "page_loop"
    /\ page_idx < total_pages
    /\ page_idx' = page_idx + 1
    /\ run_image_calls' = run_image_calls + 1
    /\ \E o \in Ask(RunImageOutcomes, varied = <<runner, page_idx + 1>>) :
         /\ answers' = Append(answers, o)
         /\ page_text' = AfterRunImage(o).page_text
         /\ pc' = AfterRunImage(o).pc
    /\ UNCHANGED <<models_to_run, pdf_path, gemini_gt_path, gemini_gt,
                   total_pages, name_it, runners, init_log, runner_it, runner,
                   gt, hyp, cer, w, measures, char_acc, summary_rows,
                   out_files, summary_written>>
    /\ UNCHANGED <<metricVars, pairVars>>

\* lines 43-47 and 130: save_text(model_out_dir / f"page_{page_idx}.txt",
\* page_text); Path.write_text raises TypeError on None, which nothing catches
SaveText ==
    /\ pc = "save_text"
    /\ IF page_text.kind = "str"
       THEN /\ out_files' = out_files \cup {<<runners[runner].name, page_idx>>}
            /\ pc' = "score"
       ELSE /\ pc' = "crashed"
            /\ UNCHANGED out_files
    /\ UNCHANGED <<models_to_run, pdf_path, gemini_gt_path, gemini_gt,
                   total_pages, name_it, runners, init_log, runner_it, runner,
                   page_idx, page_text, gt, hyp, cer, w, measures, char_acc,
                   summary_rows, summary_written, run_image_calls>>
    /\ UNCHANGED <<metricVars, pairVars, answers>>

\* line 131: gemini_gt.get(page_idx, '')
ReferenceOf(page) == IF page \in DOMAIN gemini_gt THEN gemini_gt[page] ELSE EmptyStr

\* line 132: page_text or ''
TextOrEmpty(t) == IF t.kind = "str" THEN t.val ELSE EmptyStr

\* line 134: compute_word_measures(gt, hyp) if gt else (None, {})
WordMeasuresOf(g, h) ==
    IF g # EmptyStr THEN compute_word_measures(g, h) ELSE <<None, EmptyDict>>

\* lines 131-135: the page is scored against its reference
Score ==
    /\ pc = "score"
    /\ LET g == ReferenceOf(page_idx)
           h == TextOrEmpty(page_text)
           c == compute_cer(g, h)[1]
           wm == WordMeasuresOf(g, h)
       IN  /\ gt' = g
           /\ hyp' = h
           /\ cer' = c
           /\ w' = wm[1]
           /\ measures' = wm[2]
           /\ char_acc' = IF c # None THEN OneMinus(c) ELSE None
    /\ pc' = "record"
    /\ UNCHANGED <<models_to_run, pdf_path, gemini_gt_path, gemini_gt,
                   total_pages, name_it, runners, init_log, runner_it, runner,
                   page_idx, page_text, summary_rows, out_files,
                   summary_written, run_image_calls>>
    /\ UNCHANGED <<metricVars, pairVars, answers>>

\* enumerate without start=1: the pages are numbered from 0
RowZeroBased ==
    [model |-> runners[runner].name, page |-> page_idx - 1,
     gt_len_chars |-> Len(gt), hyp_len_chars |-> Len(hyp),
     cer |-> cer, wer |-> w, char_acc |-> char_acc,
     substitutions |-> DictGet(measures, "substitutions"),
     deletions |-> DictGet(measures, "deletions"),
     insertions |-> DictGet(measures, "insertions")]

\* line 136: the row of this runner and page
Row ==
    [model |-> runners[runner].name, page |-> page_idx,
     gt_len_chars |-> Len(gt), hyp_len_chars |-> Len(hyp),
     cer |-> cer, wer |-> w, char_acc |-> char_acc,
     substitutions |-> DictGet(measures, "substitutions"),
     deletions |-> DictGet(measures, "deletions"),
     insertions |-> DictGet(measures, "insertions")]

\* lines 136-139: the row is appended; del page_text, hyp, gt
Record ==
    /\ pc = "record"
    /\ summary_rows' = Append(summary_rows, Row)
    /\ page_text' = UnboundText
    /\ hyp' = EmptyStr
    /\ gt' = EmptyStr
    /\ pc' = "page_loop"
    /\ UNCHANGED <<models_to_run, pdf_path, gemini_gt_path, gemini_gt,
                   total_pages, name_it, runners, init_log, runner_it, runner,
                   page_idx, cer, w, measures, char_acc, out_files,
                   summary_written, run_image_calls>>
    /\ UNCHANGED <<metricVars, pairVars, answers>>

\* lines 141-149: the page loop is over; del runner unbinds the loop
\* variable (the list runners still holds the instance), gc.collect()
ReleaseRunner ==
    /\ pc = "page_loop"
    /\ page_idx = total_pages
    /\ runner' = 0
    /\ pc' = "engine_loop"
    /\ UNCHANGED <<models_to_run, pdf_path, gemini_gt_path, gemini_gt,
                   total_pages, name_it, runners, init_log, runner_it,
                   page_idx, page_text, gt, hyp, cer, w, measures, char_acc,
                   summary_rows, out_files, summary_written, run_image_calls>>
    /\ UNCHANGED <<metricVars, pairVars, answers>>

\* the summary is written inside the engine loop: after the first runner
WriteSummaryEarly ==
    /\ pc = "engine_loop"
    /\ runner_it >= 1
    /\ summary_written' = (summary_rows # <<>>)
    /\ pc' = "done"
    /\ UNCHANGED <<models_to_run, pdf_path, gemini_gt_path, gemini_gt,
                   total_pages, name_it, runners, init_log, runner_it, runner,
                   page_idx, page_text, gt, hyp, cer, w, measures, char_acc,
                   summary_rows, out_files, run_image_calls>>
    /\ UNCHANGED <<metricVars, pairVars, answers>>

\* lines 151-162: the engine loop is over; the summary files are written
\* when there is a row, and process returns
WriteSummary ==
    /\ pc = "engine_loop"
    /\ runner_it = Len(runners)
    /\ summary_written' = (summary_rows # <<>>)
    /\ pc' = "done"
    /\ UNCHANGED <<models_to_run, pdf_path, gemini_gt_path, gemini_gt,
                   total_pages, name_it, runners, init_log, runner_it, runner,
                   page_idx, page_text, gt, hyp, cer, w, measures, char_acc,
                   summary_rows, out_files, run_image_calls>>
    /\ UNCHANGED <<metricVars, pairVars, answers>>

\* utils.py lines 112-170: the call of compute_all_metrics returns
ComputeAllMetrics ==
    /\ m_pc = "called"
    /\ m_result' = compute_all_metrics(m_gt, m_hyp)
    /\ m_pc' = "returned"
    /\ UNCHANGED <<m_gt, m_hyp>>
    /\ UNCHANGED <<procVars, pairVars, answers>>

\* the steps of process
ProcessNext ==
    \/ ResolveInputs
    \/ LoadGroundTruth
    \/ ConvertPdf
    \/ InitRunner
    \/ CheckRunners
    \/ NextRunner
    \/ Recognize
    \/ SaveText
    \/ Score
    \/ Record
    \/ ReleaseRunner
    \/ WriteSummary

Next == ProcessNext \/ ComputeAllMetrics

\* one call of process, or one call of compute_all_metrics
Spec == Init /\ [][Next]_vars

\* ------------------------------------------------------- two compared runs
\* A run of at least two engines, with both inputs found at the given
\* paths, has ended.  process is called again with the same models_to_run
\* in the same environment: every answer is the one the first run got,
\* except the answer of the run_image call of one runner on one page, which
\* may raise where it returned or return where it raised.
Restart ==
    /\ run_no = 1
    /\ pc \in {"done", "crashed"}
    /\ Len(runners) >= 2
    /\ pdf_path = "cmd_path"
    /\ gemini_gt_path = "cmd_path"
    /\ run_no' = 2
    /\ prior' = [answers |-> answers, rows |-> summary_rows,
                 runners |-> runners, pc |-> pc]
    /\ varied' \in (1..Len(runners)) \X (1..total_pages)
    /\ pc' = "resolve"
    /\ pdf_path' = "cmd_path"
    /\ gemini_gt_path' = "cmd_path"
    /\ gemini_gt' = <<>>
    /\ total_pages' = 0
    /\ name_it' = 0
    /\ runners' = <<>>
    /\ init_log' = <<>>
    /\ runner_it' = 0
    /\ runner' = 0
    /\ page_idx' = 0
    /\ page_text' = UnboundText
    /\ gt' = EmptyStr
    /\ hyp' = EmptyStr
    /\ cer' = None
    /\ w' = None
    /\ measures' = EmptyDict
    /\ char_acc' = None
    /\ summary_rows' = <<>>
    /\ out_files' = {}
    /\ summary_written' = FALSE
    /\ run_image_calls' = 0
    /\ answers' = <<>>
    /\ UNCHANGED <<models_to_run, metricVars>>

\* process is called with two names of RUNNER_MAP
InitPair ==
    /\ InitProcess
    /\ Len(models_to_run) = 2
    /\ \A k \in 1..2 : models_to_run[k] \in DOMAIN RUNNER_MAP

NextPair == ProcessNext \/ Restart

\* two calls of process, one after the other, in the same environment
SpecPair == InitPair /\ [][NextPair]_vars

\* ------------------------------------------------------------ derived views
\* the answers of run_image in this run, in call order
IsRunImageAnswer(a) == a.kind \in {"text", "none", "raise"}
RunImageAnswers == SelectSeq(answers, IsRunImageAnswer)

\* the log lines of the names whose runner was constructed
IsSuccess(e) == e.outcome = "SUCCESS"
Constructed == SelectSeq(init_log, IsSuccess)

\* the runner and the page of the k-th of the rows, counted in loop order
EngineOfRow(k) == ((k - 1) \div total_pages) + 1
PageOfRow(k) == ((k - 1) % total_pages) + 1

\* process is past the initialization of the runners
InitOver ==
    pc \in {"halted", "engine_loop", "page_loop", "save_text", "score",
            "record", "done", "crashed"}

\* process is at the end of the engine loop or past it
EngineLoopOver ==
    \/ pc = "done"
    \/ pc = "engine_loop" /\ runner_it = Len(runners)

\* The runner instances that are alive, by index in runners: line 105 puts
\* every constructed instance into the list runners, which process holds
\* until it ends; `del runner` (line 142) unbinds the loop variable only.
Held == IF pc \in Terminal THEN {} ELSE 1..Len(runners)

\* ------------------------------------------------------------------ claims

\* C1: when a run of process reaches the end of the engine loop, the report
\* holds exactly one row for every pair of an active engine and a page and
\* nothing else: E * P rows for E constructed engines and P pages, whichever
\* run_image calls raised.
C1_OneRowPerPair ==
    EngineLoopOver =>
        /\ Len(summary_rows) = Len(Constructed) * total_pages
        /\ \A i \in 1..Len(Constructed) : \A p \in 1..total_pages :
             Cardinality({k \in 1..Len(summary_rows) :
                            /\ EngineOfRow(k) = i
                            /\ summary_rows[k].model = runners[i].name
                            /\ summary_rows[k].page = p}) = 1

\* C1 witness: a finished run of two engines over two pages in which a
\* run_image call raised
C1_Witness ==
    /\ pc = "done"
    /\ Len(runners) = 2
    /\ total_pages = 2
    /\ \E k \in 1..Len(RunImageAnswers) : RunImageAnswers[k].kind = "raise"

\* C2: at every point of a run the rows appended so far are grouped by
\* engine in registration order (the enabled names in their order, the ones
\* that failed to construct left out) and, within an engine, the pages
\* ascend strictly from 1, whichever recognitions failed.
C2_RowOrder ==
    /\ Len(runners) = Len(Constructed)
    /\ \A i \in 1..Len(runners) : runners[i].key = Constructed[i].name
    /\ \A k \in 1..Len(summary_rows) :
         /\ EngineOfRow(k) <= Len(runners)
         /\ summary_rows[k].model = runners[EngineOfRow(k)].name
         /\ summary_rows[k].page = PageOfRow(k)
    /\ \A k \in 1..(Len(summary_rows) - 1) :
         \/ /\ EngineOfRow(k + 1) = EngineOfRow(k)
            /\ summary_rows[k + 1].page = summary_rows[k].page + 1
         \/ /\ EngineOfRow(k + 1) = EngineOfRow(k) + 1
            /\ summary_rows[k + 1].page = 1

\* C2 witness: the rows of a second engine follow the rows of a first one
\* whose recognition failed on its last page
C2_Witness ==
    /\ Len(summary_rows) = 4
    /\ total_pages = 2
    /\ runners[1].key # runners[2].key
    /\ RunImageAnswers[2].kind = "raise"

\* the row process builds for runner name n and page p from hypothesis h
ExpectedRow(n, p, h) ==
    LET g == ReferenceOf(p)
        c == compute_cer(g, h)[1]
        wm == WordMeasuresOf(g, h)
    IN  [model |-> n, page |-> p, gt_len_chars |-> Len(g),
         hyp_len_chars |-> Len(h), cer |-> c, wer |-> wm[1],
         char_acc |-> IF c # None THEN OneMinus(c) ELSE None,
         substitutions |-> DictGet(wm[2], "substitutions"),
         deletions |-> DictGet(wm[2], "deletions"),
         insertions |-> DictGet(wm[2], "insertions")]

\* a page is being saved, scored or recorded
InPage == pc \in {"save_text", "score", "record"}

\* C3: when run_image raises on a page the exception does not leave
\* process: the hypothesis of that engine and page is the marker
\* "[OCR_ERROR: <message>]", a row is still scored against the page's
\* reference and recorded with hyp_len_chars the length of the marker, and
\* the loop goes on with the same engine's next page.
C3_FailureMarker ==
    \A calls \in {RunImageAnswers} :
      LET n == Len(calls)
      IN
        /\ \A k \in 1..n :
             calls[k].kind = "raise" =>
               LET marker == OcrErrorMarker(calls[k].val)
               IN  /\ k = n /\ InPage => page_text = StrVal(marker)
                   /\ k = n => pc # "crashed"
                   /\ k = n /\ pc = "record" => hyp = marker
                   /\ k < n \/ ~InPage =>
                        /\ Len(summary_rows) >= k
                        /\ summary_rows[k] =
                             ExpectedRow(runners[EngineOfRow(k)].name,
                                         PageOfRow(k), marker)
                        /\ summary_rows[k].hyp_len_chars = 13 + Len(calls[k].val)
                   \* once the failed page is recorded the same runner is
                   \* at the head of its page loop, past that page only
                   /\ k = n /\ pc = "page_loop" /\ page_idx > 0 =>
                        /\ runner = EngineOfRow(k)
                        /\ page_idx = PageOfRow(k)
                        /\ Len(summary_rows) = k
        /\ InPage => n = (runner - 1) * total_pages + page_idx
        /\ n = run_image_calls

\* C3 witness: the first page of an engine raised, its row is recorded and
\* the engine is at its second page
C3_Witness ==
    /\ pc = "save_text"
    /\ page_idx = 2
    /\ Len(RunImageAnswers) = 2
    /\ RunImageAnswers[1].kind = "raise"
    /\ Len(summary_rows) = 1
    /\ summary_rows[1].hyp_len_chars = 14

\* C4: when constructing an enabled engine raises, that engine is left out
\* of the active set and the run goes on: every other enabled engine is
\* still attempted, the constructed engines keep their relative order, and
\* each of them is run over every page.
C4_ConstructionIsolated ==
    \* a failed construction ends nothing: process dies only after a call
    \* of run_image
    /\ pc = "crashed" => run_image_calls > 0
    \* every name taken so far has its log line; the runners are the
    \* constructed ones, in the order of models_to_run
    /\ pc \notin {"resolve", "load_gt", "convert", "exited", "not_called"} =>
         /\ Len(init_log) = name_it
         /\ \A k \in 1..name_it :
              /\ init_log[k].name = models_to_run[k]
              /\ init_log[k].outcome = "SKIPPED" <=>
                   models_to_run[k] \notin DOMAIN RUNNER_MAP
         /\ Len(runners) = Len(Constructed)
         /\ \A i \in 1..Len(runners) : runners[i].key = Constructed[i].name
    /\ InitOver => name_it = Len(models_to_run)
    /\ pc = "done" =>
         \A i \in 1..Len(runners) : \A p \in 1..total_pages :
           \E k \in 1..Len(summary_rows) :
             /\ EngineOfRow(k) = i
             /\ summary_rows[k].model = runners[i].name
             /\ summary_rows[k].page = p

\* C4 witness: the first enabled engine failed to construct and the second
\* one has run over both pages
C4_Witness ==
    /\ pc = "done"
    /\ Len(init_log) = 2
    /\ init_log[1].outcome = "FAILURE"
    /\ init_log[2].outcome = "SUCCESS"
    /\ Len(summary_rows) = 2

\* C5: when no enabled engine constructs, process halts without any page
\* processing: no call of run_image, no row, no summary report.
C5_NoEngineHalts ==
    InitOver /\ Len(Constructed) = 0 =>
        /\ pc = "halted"
        /\ run_image_calls = 0
        /\ summary_rows = <<>>
        /\ out_files = {}
        /\ ~summary_written

\* C5 witness: two engines were enabled, both failed to construct, and
\* process has returned
C5_Witness ==
    /\ pc = "halted"
    /\ Len(init_log) = 2
    /\ \A k \in 1..2 : init_log[k].outcome = "FAILURE"
    /\ total_pages = 2

\* C6: the display names of the active engines are unique within a run: two
\* constructed engines with the same name are a configuration error raised
\* before any page is processed, so that no call of run_image is made and no
\* row or page output is written under a shared name.
C6_UniqueNames ==
    (\E i, j \in 1..Len(runners) : i # j /\ runners[i].name = runners[j].name) =>
        /\ run_image_calls = 0
        /\ summary_rows = <<>>
        /\ out_files = {}
        /\ pc \notin {"page_loop", "save_text", "score", "record", "done"}

\* the metric fields of a report row
RowMetricFields ==
    {"cer", "wer", "char_acc", "substitutions", "deletions", "insertions"}

C8_ReportSurvivesFaults ==
    pc \in {"done", "crashed"} /\ Len(runners) > 0 /\ total_pages > 0 =>
        /\ summary_written
        /\ Len(summary_rows) + Cardinality({k \in 1..Len(RunImageAnswers) :
                                              RunImageAnswers[k].kind = "none"})
             >= Len(runners) * total_pages

\* C10: at most one engine is alive at any time of a run.
C10_OneEngineActive == Cardinality(Held) <= 1

\* the rows of the i-th runner among rows, in order
RowsOfEngine(rows, i, pages) ==
    SubSeq(rows, Min2((i - 1) * pages, Len(rows)) + 1, Min2(i * pages, Len(rows)))

\* C9: a failure in one engine's page never touches another engine's rows:
\* two runs over the same pages, references and engines that differ only in
\* which pages of engine A raise give every other engine B the same rows in
\* the same order.
C9_NoInterference ==
    run_no = 2 /\ pc \in {"done", "crashed"} =>
        \A b \in 1..Len(runners) :
            b # varied[1] =>
                RowsOfEngine(summary_rows, b, total_pages)
                    = RowsOfEngine(prior.rows, b, total_pages)

\* the runners whose page loop is over: every runner the engine loop took
\* before the current one, and the current one once line 141 is reached
Finished ==
    IF pc = "engine_loop" THEN 1..runner_it
    ELSE IF pc \in {"page_loop", "save_text", "score", "record"}
    THEN 1..(runner_it - 1)
    ELSE {}

\* C11: an engine's resources are released as soon as that engine is through
\* its last page and before the next engine takes its first page, whether
\* its pages succeeded or failed: no runner whose page loop is over is
\* still held.
C11_ReleasedAfterLastPage == Finished \cap Held = {}

\* The phase process is in: 0 Idle (nothing loaded), 1 Initializing (lines
\* 80-114: references, pages, runners), 2 PerEngine (lines 118-149),
\* 3 Finalizing (the engine loop is over, lines 151-160), 4 Done (process
\* has returned, exited or died).
Phase ==
    IF pc \in {"resolve", "not_called"} THEN 0
    ELSE IF pc \in {"load_gt", "convert", "init_runners"} THEN 1
    ELSE IF pc = "engine_loop" /\ runner_it = Len(runners) THEN 3
    ELSE IF pc \in {"engine_loop", "page_loop", "save_text", "score", "record"}
    THEN 2
    ELSE 4

\* the answers the environment gave before the k-th
AnswerKindsBefore(k) == {answers[i].kind : i \in 1..(k - 1)}

\* what holds of a run's order in every state: a run_image call comes after
\* the references and the pages were read, rows never outnumber calls, and
\* a written report holds the rows of every runner and page
PhaseOrderState ==
    /\ \A k \in 1..Len(answers) :
         IsRunImageAnswer(answers[k]) =>
            {"resolve", "gt", "pages"} \subseteq AnswerKindsBefore(k)
    /\ run_image_calls > 0 => Phase >= 2
    /\ Len(summary_rows) <= run_image_calls
    /\ summary_written =>
         /\ pc = "done"
         /\ Len(summary_rows) = Len(runners) * total_pages

\* what holds of every step: the phase never falls, a page goes from
\* run_image to save_text to score to record, a row is appended in the
\* record step only, and the report is written from the end of the engine
\* loop only
PhaseOrderStep ==
    /\ Phase' >= Phase
    /\ run_image_calls' # run_image_calls =>
         pc = "page_loop" /\ pc' \in {"save_text", "crashed"}
    /\ pc' = "save_text" /\ pc # "save_text" =>
         pc = "page_loop" /\ run_image_calls' = run_image_calls + 1
    /\ pc' = "score" /\ pc # "score" => pc = "save_text"
    /\ pc' = "record" /\ pc # "record" => pc = "score"
    /\ summary_rows' # summary_rows =>
         pc = "record" /\ Len(summary_rows') = Len(summary_rows) + 1
    /\ summary_written' # summary_written =>
         /\ Phase = 3
         /\ Len(summary_rows) = Len(runners) * total_pages
         /\ pc' = "done"

\* C12: a run goes through Idle, Initializing, PerEngine, Finalizing, Done
\* in that order and never back: no run_image call is made before the pages
\* and the references are loaded, a page's row is recorded only after that
\* page was recognized and then scored, and the report is written only
\* after every active engine is through every page.
C12_PhaseOrder == []PhaseOrderState /\ [][PhaseOrderStep]_vars

\* C12 witness: a run of two runners over two pages has gone through every
\* phase and written its report
C12_Witness ==
    /\ pc = "done"
    /\ summary_written
    /\ Len(runners) = 2
    /\ total_pages = 2
    /\ Len(summary_rows) = 4

\* C13: when the document or the reference source is found neither at the
\* given path nor under the default directory, process exits before any
\* engine is initialized: nothing is constructed, no page is processed, no
\* row and no report is produced.  A path found at either place does not
\* stop the run.
C13_ResolutionFatal ==
    /\ pc = "exited" => Len(answers) = 1
    /\ \A a \in {answers[k] : k \in {1} \cap DOMAIN answers} :
         LET missing == a.val[1] = "missing" \/ a.val[2] = "missing"
         IN  /\ a.kind = "resolve"
             /\ missing <=> pc = "exited"
             /\ missing =>
                  /\ name_it = 0
                  /\ init_log = <<>>
                  /\ runners = <<>>
                  /\ gemini_gt = <<>>
                  /\ total_pages = 0
                  /\ run_image_calls = 0
                  /\ summary_rows = <<>>
                  /\ out_files = {}
                  /\ ~summary_written

\* C13 witness: the document is found under the default directory, the
\* reference source nowhere, and process has exited
C13_Witness ==
    /\ pc = "exited"
    /\ models_to_run = <<"easyocr">>
    /\ answers = <<[kind |-> "resolve", val |-> <<"fallback", "missing">>]>>
    /\ pdf_path = "fallback_path"

\* two fractions are the same number
SameNumber(x, y) == x[2] # 0 /\ y[2] # 0 /\ x[1] * y[2] = y[1] * x[2]

C15_EmptyHypothesis ==
    m_pc = "returned" /\ ~IsBlank(m_gt) /\ m_hyp = EmptyStr =>
      /\ ~m_result.raised
      /\ m_result.value.levenshtein_dist = IntVal(Len(m_gt))
      /\ SameNumber(m_result.value.cer, Frac(1, 1))
      /\ SameNumber(m_result.value.wer, Frac(1, 1))
      /\ SameNumber(m_result.value.char_acc, Frac(0, 1))
      /\ m_result.value.insertions = IntVal(0)
      /\ m_result.value.substitutions = IntVal(0)
      /\ m_result.value.deletions = IntVal(Len(Split(m_gt)))

\* C15 witness: the reference "a b", of three characters and two tokens,
\* was scored against the empty hypothesis: distance 3 and 2 deletions
C15_Witness ==
    /\ m_pc = "returned"
    /\ m_gt = <<"a", " ", "b">>
    /\ m_hyp = EmptyStr
    /\ m_result.value.levenshtein_dist = IntVal(3)
    /\ m_result.value.deletions = IntVal(2)

\* run_image returned normally without text: the empty string or None
NoTextAnswer(a) ==
    a.kind = "none" \/ (a.kind = "text" /\ a.val = EmptyStr)

\* C16: when run_image returns the empty string or None instead of raising,
\* the page is still recorded: process does not die on it, the hypothesis is
\* the empty string, a row with hyp_len_chars = 0 is appended for that
\* runner and page, and the run goes on with the next page.
C16_EmptyResultRecorded ==
    \A calls \in {RunImageAnswers} :
      \A k \in 1..Len(calls) :
        NoTextAnswer(calls[k]) =>
          /\ k = Len(calls) => pc # "crashed"
          /\ k = Len(calls) /\ pc = "record" => hyp = EmptyStr
          /\ k < Len(calls) =>
               /\ Len(summary_rows) >= k
               /\ summary_rows[k].model = runners[EngineOfRow(k)].name
               /\ summary_rows[k].page = PageOfRow(k)
               /\ summary_rows[k].hyp_len_chars = 0
====
